---- MODULE Spec2Model ----
(***************************************************************************)
(* Model of the table / index synchronisation engine of table.go:         *)
(* versioned Get/Set/Delete/Update on the primary keyspace, the index     *)
(* diff, the CAS retry loops of the index buckets, and the range cursor.  *)
(*                                                                         *)
(* Go strings and []byte are sequences of small naturals (bytes).         *)
(* A keyspace is a function from the keys ever written to entries         *)
(* [has, val, ctr]; has = FALSE is a key whose item.Value() is nil.       *)
(***************************************************************************)
EXTENDS Integers, Sequences, FiniteSets, TLC

VARIABLES
    indexes,   \* t.indexes: the names of the declared indexes
    data,      \* t.data: primary keyspace, key -> entry
    index,     \* index keyspaces: index name -> (bucket key -> entry)
    procs,     \* concurrent callers: process -> position and locals
    rng,       \* the Range returned by Between/All: bounds, direction, cursor
    out,       \* keys pulled from the Range so far, and whether it has ended
    diff,      \* inputs and result of the last diffIndexes evaluation
    db         \* t.db: is the table in db.tables, and in db.config.Tables

vars == <<indexes, data, index, procs, rng, out, diff, db>>

-----------------------------------------------------------------------------
(* Bounds and program constants *)

\* uint16 counters: Set compares and passes uint16(counter[0])
CounterMod == 65536
\* cap on the writes of the primary keyspace: no call is made once the
\* documents have been written this often
MaxWrites == 3
\* number of concurrent callers
NProcs == 2
\* longest sequence of values a payload handed to diffIndexes yields at the
\* "tag" path
MaxTags == 2

-----------------------------------------------------------------------------
(* Strings, bytes *)

\* primary keys used by the write path ("x", "y")
KeyX == <<1>>
KeyY == <<2>>
PKeys == {KeyX, KeyY}
\* one-character tag strings a document yields at path "tag"
TagCodes == {1, 2}
\* keys of the primary keyspace the range cursor scans
RangeKeys == {<<1>>, <<1, 1>>, <<1, 2>>, <<2>>, <<2, 1>>}
AllKeys == PKeys \cup RangeKeys
IndexNames == {"tag", "n"}

RECURSIVE BytesCompare(_, _)
\* bytes.Compare: -1, 0, 1 in lexicographic byte order
BytesCompare(a, b) ==
    IF a = <<>> /\ b = <<>> THEN 0
    ELSE IF a = <<>> THEN -1
    ELSE IF b = <<>> THEN 1
    ELSE IF Head(a) < Head(b) THEN -1
    ELSE IF Head(a) > Head(b) THEN 1
    ELSE BytesCompare(Tail(a), Tail(b))

SeqsUpTo(S, n) == UNION {[1..k -> S] : k \in 0..n}

-----------------------------------------------------------------------------
(* Sorted KV primitive (badger.KV): per-key atomic operations *)

NoEntry == [has |-> FALSE, val |-> <<>>, ctr |-> 0]

Bump(c) == (c + 1) % CounterMod

\* the stored entry of k; a key never written has none
Entry(kv, k) == IF k \in DOMAIN kv THEN kv[k] ELSE NoEntry

\* kv.Get: an absent key fills the item with a nil value and a zero counter
KVGet(kv, k) == IF Entry(kv, k).has THEN Entry(kv, k) ELSE NoEntry

\* kv.Set: unconditional write, the key's counter is bumped
KVSet(kv, k, v) ==
    (k :> [has |-> TRUE, val |-> v, ctr |-> Bump(Entry(kv, k).ctr)]) @@ kv

\* kv.Delete: unconditional delete, the key's counter is bumped
KVDelete(kv, k) ==
    (k :> [has |-> FALSE, val |-> <<>>, ctr |-> Bump(Entry(kv, k).ctr)]) @@ kv

\* what the engine may answer a compare-and-set / compare-and-delete on a
\* key that has no entry: a mismatch whatever the counter, or the
\* comparison of the counters as for any other key. The contract of the
\* primitive leaves it to the engine.
AbsentCas == {"mismatch", "compare"}

\* does a compare-and-set / compare-and-delete with counter c go through:
\* the key's counter is c; on a key that has no entry, absent is the
\* engine's answer
KVCasOk(kv, k, c, absent) ==
    /\ Entry(kv, k).ctr = c
    /\ Entry(kv, k).has \/ absent = "compare"

\* kv.CompareAndSet: [err, kv]
KVCompareAndSet(kv, k, v, c, absent) ==
    IF KVCasOk(kv, k, c, absent)
    THEN [err |-> "nil", kv |-> KVSet(kv, k, v)]
    ELSE [err |-> "CasMismatch", kv |-> kv]

\* kv.CompareAndDelete: [err, kv]
KVCompareAndDelete(kv, k, c, absent) ==
    IF KVCasOk(kv, k, c, absent)
    THEN [err |-> "nil", kv |-> KVDelete(kv, k)]
    ELSE [err |-> "CasMismatch", kv |-> kv]

-----------------------------------------------------------------------------
(* Value codec (msgpack) and canonical index keys *)

\* a document: a number field "n" and a multi-valued field "tag"
\* msgpack.Marshal of a document: <<n, number of tags, tag codes...>>
Marshal(doc) == <<doc.n, Len(doc.tag)>> \o doc.tag

WellFormed(b) == Len(b) >= 2 /\ Len(b) = b[2] + 2

\* msgpack.Unmarshal into the document shape: [err, doc]
Unmarshal(b) ==
    IF WellFormed(b)
    THEN [err |-> "nil", doc |-> [n |-> b[1], tag |-> SubSeq(b, 3, Len(b))]]
    ELSE [err |-> "decode", doc |-> [n |-> 0, tag |-> <<>>]]

\* raw values: a Go string, and the sentinels of a range
String(b) == [t |-> "string", v |-> b]
MinBounds == [t |-> "MinBounds", v |-> <<>>]
MaxBounds == [t |-> "MaxBounds", v |-> <<>>]

\* Decoder.Query(path): the raw values at the path; nothing for bytes that
\* do not decode or a path the document lacks
Query(b, path) ==
    IF ~WellFormed(b) THEN <<>>
    ELSE IF path = "tag"
         THEN [i \in 1..b[2] |-> String(<<b[i + 2]>>)]
    ELSE IF path = "n" THEN <<[t |-> "int", v |-> b[1]]>>
    ELSE <<>>

\* valueToBytes: canonical bytes of a raw value (a string is its bytes, a
\* number a fixed-width big-endian form, a sentinel has none that are used)
valueToBytes(raw) ==
    IF raw.t = "string" THEN raw.v
    ELSE IF raw.t = "int" THEN <<0, raw.v>>
    ELSE <<>>

RECURSIVE MarshalStrings(_)
\* the elements of a []string, each length-prefixed
MarshalStrings(list) ==
    IF list = <<>> THEN <<>>
    ELSE <<Len(Head(list))>> \o Head(list) \o MarshalStrings(Tail(list))

\* msgpack.Marshal of []string: <<count>> then the elements
EncodeList(list) == <<Len(list)>> \o MarshalStrings(list)

RECURSIVE ParseStrings(_, _)
\* parse n length-prefixed strings off b: [ok, list]
ParseStrings(b, n) ==
    IF n = 0 THEN [ok |-> b = <<>>, list |-> <<>>]
    ELSE IF b = <<>> \/ Len(b) < 1 + b[1] THEN [ok |-> FALSE, list |-> <<>>]
    ELSE LET rest == ParseStrings(SubSeq(b, 2 + b[1], Len(b)), n - 1)
         IN  [ok |-> rest.ok,
              list |-> <<SubSeq(b, 2, 1 + b[1])>> \o rest.list]

\* msgpack.Unmarshal into []string: [err, list]
DecodeList(b) ==
    IF b = <<>> THEN [err |-> "decode", list |-> <<>>]
    ELSE LET r == ParseStrings(Tail(b), b[1])
         IN  IF r.ok THEN [err |-> "nil", list |-> r.list]
             ELSE [err |-> "decode", list |-> <<>>]

-----------------------------------------------------------------------------
(* Diff engine *)

\* does the sequence b hold a value equal (bytes.Equal) to aa
Found(aa, b) == \E j \in 1..Len(b) : b[j] = aa

RECURSIVE getOneWayDiffs(_, _, _)
\* one diffEntry for every element of a, in order, that b does not hold
getOneWayDiffs(indexName, a, b) ==
    IF a = <<>> THEN <<>>
    ELSE (IF Found(Head(a), b) THEN <<>>
          ELSE <<[indexName |-> indexName, indexKey |-> Head(a)]>>)
         \o getOneWayDiffs(indexName, Tail(a), b)

\* the canonical bytes of the values bytes b yields at the index's path;
\* empty for a failed query and for empty bytes
IndexValues(b, indexName) ==
    LET raw == IF Len(b) = 0 THEN <<>> ELSE Query(b, indexName)
    IN  [i \in 1..Len(raw) |-> valueToBytes(raw[i])]

RECURSIVE diffIndexesOneSided(_, _, _)
\* diffIndexes whose removals repeat the comparison made for the additions
diffIndexesOneSided(old, new, order) ==
    IF order = <<>> THEN [additions |-> <<>>, removals |-> <<>>]
    ELSE LET oldValues == IndexValues(old, Head(order))
             newValues == IndexValues(new, Head(order))
             rest == diffIndexesOneSided(old, new, Tail(order))
         IN  [additions |->
                  getOneWayDiffs(Head(order), newValues, oldValues)
                  \o rest.additions,
              removals |->
                  getOneWayDiffs(Head(order), newValues, oldValues)
                  \o rest.removals]

RECURSIVE diffIndexes(_, _, _)
\* order: the order in which the map t.indexes is ranged over
diffIndexes(old, new, order) ==
    IF order = <<>> THEN [additions |-> <<>>, removals |-> <<>>]
    ELSE LET oldValues == IndexValues(old, Head(order))
             newValues == IndexValues(new, Head(order))
             rest == diffIndexes(old, new, Tail(order))
         IN  [additions |->
                  getOneWayDiffs(Head(order), newValues, oldValues)
                  \o rest.additions,
              removals |->
                  getOneWayDiffs(Head(order), oldValues, newValues)
                  \o rest.removals]

\* the orders a range over a set of index names can take
Orders(S) ==
    {o \in [1..Cardinality(S) -> S] : \A i, j \in DOMAIN o : i # j => o[i] # o[j]}

-----------------------------------------------------------------------------
(* A caller: its position in the handler it runs and the handler's locals. *)
(* A step takes a record st = [data, index, ps] to the next one; each step *)
(* holds exactly one operation of a keyspace.                              *)

NoDoc == [n |-> 0, tag |-> <<>>]

\* the modifier functions handed to Update
Handlers == {"inc", "retag", "abort"}
HandlerErr(h) == IF h = "abort" THEN "abort" ELSE "nil"
HandlerResult(h, doc) ==
    IF h = "inc" THEN [doc EXCEPT !.n = @ + 1]
    ELSE IF h = "retag"
         THEN [doc EXCEPT !.tag = IF @ = <<>> THEN <<1>>
                                  ELSE [i \in DOMAIN @ |-> 3 - @[i]]]
    ELSE doc

IdleProc ==
    [pc |-> "idle", op |-> "none", key |-> <<>>, doc |-> NoDoc,
     handler |-> "none", hasCtr |-> FALSE, ctr |-> 0,
     item |-> NoEntry, bytes |-> <<>>, rem |-> <<>>, add |-> <<>>,
     bitem |-> NoEntry, list |-> <<>>, lastErr |-> "nil", ret |-> "none",
     absentCas |-> "compare"]

\* the caller at the first statement of the operation it was asked to run
SetCall(key, doc) ==
    [IdleProc EXCEPT !.pc = "SetGet", !.op = "Set", !.key = key, !.doc = doc]
SetCasCall(key, doc, counter) ==
    [SetCall(key, doc) EXCEPT !.hasCtr = TRUE, !.ctr = counter]
\* Set with a counter on an engine that answers a compare-and-set on a key
\* without an entry with absent
SetCasCallOn(key, doc, counter, absent) ==
    [SetCasCall(key, doc, counter) EXCEPT !.absentCas = absent]
DeleteCall(key) ==
    [IdleProc EXCEPT !.pc = "DeleteGet", !.op = "Delete", !.key = key]
DeleteCasCall(key, counter) ==
    [DeleteCall(key) EXCEPT !.hasCtr = TRUE, !.ctr = counter]
UpdateCall(key, handler) ==
    [IdleProc EXCEPT !.pc = "UpdateGet", !.op = "Update", !.key = key,
                     !.handler = handler]
AddToIndexCall(indexName, indexKey, key) ==
    [IdleProc EXCEPT !.pc = "AddGet", !.op = "addToIndex", !.key = key,
        !.add = <<[indexName |-> indexName, indexKey |-> indexKey]>>]
DeleteFromIndexCall(indexName, indexKey, key) ==
    [IdleProc EXCEPT !.pc = "DelGet", !.op = "deleteFromIndex", !.key = key,
        !.rem = <<[indexName |-> indexName, indexKey |-> indexKey]>>]

\* the operation returns err to its caller
Return(ps, err) ==
    [IdleProc EXCEPT !.pc = "done", !.op = ps.op, !.key = ps.key,
                     !.handler = ps.handler, !.ret = err]

\* Set returns err; inside Update, ErrCounterChanged restarts the loop
SetReturn(ps, err) ==
    IF ps.op = "Update" /\ err = "ErrCounterChanged"
    THEN [IdleProc EXCEPT !.pc = "UpdateGet", !.op = ps.op, !.key = ps.key,
                          !.handler = ps.handler]
    ELSE Return(ps, err)

\* updateIndex whose error Set and Delete hand on to their caller
NextIndexOpReturnsError(ps) ==
    IF ps.rem # <<>> THEN [ps EXCEPT !.pc = "DelGet"]
    ELSE IF ps.add # <<>> THEN [ps EXCEPT !.pc = "AddGet"]
    ELSE IF ps.op = "Delete" THEN Return(ps, ps.lastErr)
    ELSE SetReturn(ps, ps.lastErr)

\* updateIndex: the next removal, then the next addition, then the return
\* (Set and Delete drop updateIndex's error and return nil)
NextIndexOp(ps) ==
    IF ps.rem # <<>> THEN [ps EXCEPT !.pc = "DelGet"]
    ELSE IF ps.add # <<>> THEN [ps EXCEPT !.pc = "AddGet"]
    ELSE IF ps.op \in {"addToIndex", "deleteFromIndex"}
         THEN Return(ps, ps.lastErr)
    ELSE IF ps.op = "Delete" THEN Return(ps, "nil")
    ELSE SetReturn(ps, "nil")

\* updateIndex that returns at the first bucket operation that fails
IndexOpDoneStopOnError(ps, err) ==
    IF err # "nil"
    THEN NextIndexOp([ps EXCEPT !.rem = <<>>, !.add = <<>>, !.lastErr = err,
                                !.bitem = NoEntry, !.list = <<>>])
    ELSE IF ps.rem # <<>>
         THEN NextIndexOp([ps EXCEPT !.rem = Tail(@),
                                     !.bitem = NoEntry, !.list = <<>>])
    ELSE NextIndexOp([ps EXCEPT !.add = Tail(@),
                                !.bitem = NoEntry, !.list = <<>>])

\* deleteFromIndex / addToIndex returned err: updateIndex records it and goes on
IndexOpDone(ps, err) ==
    LET e == IF err # "nil" THEN err ELSE ps.lastErr
    IN  IF ps.rem # <<>>
        THEN NextIndexOp([ps EXCEPT !.rem = Tail(@), !.lastErr = e,
                                    !.bitem = NoEntry, !.list = <<>>])
        ELSE NextIndexOp([ps EXCEPT !.add = Tail(@), !.lastErr = e,
                                    !.bitem = NoEntry, !.list = <<>>])

\* updateIndex that applies the additions and forgets the removals
updateIndexNoRemovals(ps, old, new, order) ==
    LET d == diffIndexes(old, new, order)
    IN  NextIndexOp([ps EXCEPT !.rem = <<>>, !.add = d.additions,
                               !.item = NoEntry, !.bytes = <<>>])

\* updateIndex that takes the key out of every bucket of the old value and
\* puts it into every bucket of the new one
updateIndexRewriteAll(ps, old, new, order) ==
    NextIndexOp([ps EXCEPT !.rem = diffIndexes(old, <<>>, order).removals,
                           !.add = diffIndexes(<<>>, new, order).additions,
                           !.item = NoEntry, !.bytes = <<>>])

\* updateIndex(key, old, new) up to its first index operation
updateIndex(ps, old, new, order) ==
    LET d == diffIndexes(old, new, order)
    IN  NextIndexOp([ps EXCEPT !.rem = d.removals, !.add = d.additions,
                               !.item = NoEntry, !.bytes = <<>>])

\* Set that compares the supplied counter as an int, as Delete does
SetGetIntCompare(st) ==
    LET ps == st.ps
        item == KVGet(st.data, ps.key)
    IN  IF ps.hasCtr /\ item.ctr # ps.ctr
        THEN [st EXCEPT !.ps = SetReturn(ps, "ErrCounterChanged")]
        ELSE [st EXCEPT !.ps = [ps EXCEPT !.pc = "SetWrite", !.item = item,
                                          !.bytes = Marshal(ps.doc)]]

\* Set: read the item, check the supplied counter as uint16, marshal
SetGet(st) ==
    LET ps == st.ps
        item == KVGet(st.data, ps.key)
    IN  IF ps.hasCtr /\ item.ctr # ps.ctr % CounterMod
        THEN [st EXCEPT !.ps = SetReturn(ps, "ErrCounterChanged")]
        ELSE [st EXCEPT !.ps = [ps EXCEPT !.pc = "SetWrite", !.item = item,
                                          !.bytes = Marshal(ps.doc)]]

\* Set that writes with Set where it should CompareAndSet
SetWriteNoCas(st, order) ==
    LET ps == st.ps
    IN  [st EXCEPT !.data = KVSet(st.data, ps.key, ps.bytes),
                   !.ps = updateIndex(ps, ps.item.val, ps.bytes, order)]

\* Set: CompareAndSet or Set, then updateIndex(key, item.Value(), data)
SetWrite(st, order) ==
    LET ps == st.ps
        r == IF ps.hasCtr
             THEN KVCompareAndSet(st.data, ps.key, ps.bytes,
                                  ps.ctr % CounterMod,
                                  ps.absentCas)
             ELSE [err |-> "nil", kv |-> KVSet(st.data, ps.key, ps.bytes)]
    IN  IF r.err = "CasMismatch"
        THEN [st EXCEPT !.ps = SetReturn(ps, "ErrCounterChanged")]
        ELSE [st EXCEPT !.data = r.kv,
                        !.ps = updateIndex(ps, ps.item.val, ps.bytes, order)]

\* Delete without the early return for a missing document
DeleteGetNoNilCheck(st) ==
    LET ps == st.ps
        item == KVGet(st.data, ps.key)
    IN  IF ps.hasCtr /\ item.ctr # ps.ctr
        THEN [st EXCEPT !.ps = Return(ps, "ErrCounterChanged")]
        ELSE [st EXCEPT !.ps = [ps EXCEPT !.pc = "DeleteWrite",
                                          !.item = item]]

\* Delete: read the item; nothing to do for a missing document; the
\* supplied counter is compared as an int
DeleteGet(st) ==
    LET ps == st.ps
        item == KVGet(st.data, ps.key)
    IN  IF ~item.has THEN [st EXCEPT !.ps = Return(ps, "nil")]
        ELSE IF ps.hasCtr /\ item.ctr # ps.ctr
             THEN [st EXCEPT !.ps = Return(ps, "ErrCounterChanged")]
        ELSE [st EXCEPT !.ps = [ps EXCEPT !.pc = "DeleteWrite",
                                          !.item = item]]

\* Delete: CompareAndDelete or Delete, then updateIndex(key, item.Value(), nil)
DeleteWrite(st, order) ==
    LET ps == st.ps
        r == IF ps.hasCtr
             THEN KVCompareAndDelete(st.data, ps.key, ps.ctr % CounterMod,
                                     ps.absentCas)
             ELSE [err |-> "nil", kv |-> KVDelete(st.data, ps.key)]
    IN  IF r.err = "CasMismatch"
        THEN [st EXCEPT !.ps = Return(ps, "ErrCounterChanged")]
        ELSE [st EXCEPT !.data = r.kv,
                        !.ps = updateIndex(ps, ps.item.val, <<>>, order)]

\* Update that sets the handler's result whatever error it returned
UpdateGetIgnoreAbort(st) ==
    LET ps == st.ps
        item == KVGet(st.data, ps.key)
        dec == Unmarshal(item.val)
    IN  IF ~item.has THEN [st EXCEPT !.ps = Return(ps, "ErrNotFound")]
        ELSE IF dec.err # "nil" THEN [st EXCEPT !.ps = Return(ps, dec.err)]
        ELSE [st EXCEPT !.ps =
                 [ps EXCEPT !.pc = "SetGet", !.hasCtr = TRUE,
                            !.ctr = item.ctr,
                            !.doc = [dec.doc EXCEPT !.n = @ + 1]]]

\* Update that hands Set the counter after the one it read
UpdateGetNextCounter(st) ==
    LET ps == st.ps
        item == KVGet(st.data, ps.key)
        dec == Unmarshal(item.val)
    IN  IF ~item.has THEN [st EXCEPT !.ps = Return(ps, "ErrNotFound")]
        ELSE IF dec.err # "nil" THEN [st EXCEPT !.ps = Return(ps, dec.err)]
        ELSE IF HandlerErr(ps.handler) # "nil"
             THEN [st EXCEPT !.ps = Return(ps, HandlerErr(ps.handler))]
        ELSE [st EXCEPT !.ps =
                 [ps EXCEPT !.pc = "SetGet", !.hasCtr = TRUE,
                            !.ctr = Bump(item.ctr),
                            !.doc = HandlerResult(ps.handler, dec.doc)]]

\* Update: t.Get, the handler, and the call of Set with the counter read
UpdateGet(st) ==
    LET ps == st.ps
        item == KVGet(st.data, ps.key)
        dec == Unmarshal(item.val)
    IN  IF ~item.has THEN [st EXCEPT !.ps = Return(ps, "ErrNotFound")]
        ELSE IF dec.err # "nil" THEN [st EXCEPT !.ps = Return(ps, dec.err)]
        ELSE IF HandlerErr(ps.handler) # "nil"
             THEN [st EXCEPT !.ps = Return(ps, HandlerErr(ps.handler))]
        ELSE [st EXCEPT !.ps =
                 [ps EXCEPT !.pc = "SetGet", !.hasCtr = TRUE,
                            !.ctr = item.ctr,
                            !.doc = HandlerResult(ps.handler, dec.doc)]]

RECURSIVE RemoveFirst(_, _)
\* list without its first element equal to key
RemoveFirst(list, key) ==
    IF list = <<>> THEN <<>>
    ELSE IF Head(list) = key THEN Tail(list)
    ELSE <<Head(list)>> \o RemoveFirst(Tail(list), key)

\* deleteFromIndex that writes the list back without looking for the key
DelGetNoFoundCheck(st) ==
    LET ps == st.ps
        e == Head(ps.rem)
        item == KVGet(st.index[e.indexName], e.indexKey)
        dec == DecodeList(item.val)
    IN  IF ~item.has THEN [st EXCEPT !.ps = IndexOpDone(ps, "nil")]
        ELSE IF dec.err # "nil"
             THEN [st EXCEPT !.ps = IndexOpDone(ps, dec.err)]
        ELSE [st EXCEPT !.ps = [ps EXCEPT !.pc = "DelWrite", !.bitem = item,
                                   !.list = RemoveFirst(dec.list, ps.key)]]

\* deleteFromIndex: read and decode the bucket, find the key
DelGet(st) ==
    LET ps == st.ps
        e == Head(ps.rem)
        item == KVGet(st.index[e.indexName], e.indexKey)
        dec == DecodeList(item.val)
    IN  IF ~item.has THEN [st EXCEPT !.ps = IndexOpDone(ps, "nil")]
        ELSE IF dec.err # "nil"
             THEN [st EXCEPT !.ps = IndexOpDone(ps, dec.err)]
        ELSE IF ~Found(ps.key, dec.list)
             THEN [st EXCEPT !.ps = IndexOpDone(ps, "nil")]
        ELSE [st EXCEPT !.ps = [ps EXCEPT !.pc = "DelWrite", !.bitem = item,
                                   !.list = RemoveFirst(dec.list, ps.key)]]

\* deleteFromIndex that stores the emptied list where it should delete
DelWriteStoresEmpty(st) ==
    LET ps == st.ps
        e == Head(ps.rem)
        kv == st.index[e.indexName]
        r == KVCompareAndSet(kv, e.indexKey, EncodeList(ps.list),
                             ps.bitem.ctr, ps.absentCas)
    IN  IF r.err = "CasMismatch"
        THEN [st EXCEPT !.ps = [ps EXCEPT !.pc = "DelGet",
                                          !.bitem = NoEntry, !.list = <<>>]]
        ELSE [st EXCEPT !.index = [@ EXCEPT ![e.indexName] = r.kv],
                        !.ps = IndexOpDone(ps, r.err)]

\* deleteFromIndex: CompareAndDelete of an emptied bucket, CompareAndSet of
\* a shortened one; a mismatch goes round the loop
DelWrite(st) ==
    LET ps == st.ps
        e == Head(ps.rem)
        kv == st.index[e.indexName]
        r == IF Len(ps.list) = 0
             THEN KVCompareAndDelete(kv, e.indexKey, ps.bitem.ctr,
                                     ps.absentCas)
             ELSE KVCompareAndSet(kv, e.indexKey, EncodeList(ps.list),
                                  ps.bitem.ctr, ps.absentCas)
    IN  IF r.err = "CasMismatch"
        THEN [st EXCEPT !.ps = [ps EXCEPT !.pc = "DelGet",
                                          !.bitem = NoEntry, !.list = <<>>]]
        ELSE [st EXCEPT !.index = [@ EXCEPT ![e.indexName] = r.kv],
                        !.ps = IndexOpDone(ps, r.err)]

\* addToIndex that appends the key without looking for it in the list
AddGetNoFoundCheck(st) ==
    LET ps == st.ps
        e == Head(ps.add)
        item == KVGet(st.index[e.indexName], e.indexKey)
        dec == IF item.has THEN DecodeList(item.val)
               ELSE [err |-> "nil", list |-> <<>>]
    IN  IF dec.err # "nil" THEN [st EXCEPT !.ps = IndexOpDone(ps, dec.err)]
        ELSE [st EXCEPT !.ps = [ps EXCEPT !.pc = "AddWrite", !.bitem = item,
                                   !.list = Append(dec.list, ps.key)]]

\* addToIndex: read and decode the bucket, append the key unless present
AddGet(st) ==
    LET ps == st.ps
        e == Head(ps.add)
        item == KVGet(st.index[e.indexName], e.indexKey)
        dec == IF item.has THEN DecodeList(item.val)
               ELSE [err |-> "nil", list |-> <<>>]
    IN  IF dec.err # "nil" THEN [st EXCEPT !.ps = IndexOpDone(ps, dec.err)]
        ELSE IF Found(ps.key, dec.list)
             THEN [st EXCEPT !.ps = IndexOpDone(ps, "nil")]
        ELSE [st EXCEPT !.ps = [ps EXCEPT !.pc = "AddWrite", !.bitem = item,
                                   !.list = Append(dec.list, ps.key)]]

\* addToIndex: CompareAndSet on a bucket that was read, Set on one that
\* was absent; a mismatch goes round the loop
AddWrite(st) ==
    LET ps == st.ps
        e == Head(ps.add)
        kv == st.index[e.indexName]
        r == IF ps.bitem.has
             THEN KVCompareAndSet(kv, e.indexKey, EncodeList(ps.list),
                                  ps.bitem.ctr, ps.absentCas)
             ELSE [err |-> "nil",
                   kv |-> KVSet(kv, e.indexKey, EncodeList(ps.list))]
    IN  IF r.err = "CasMismatch"
        THEN [st EXCEPT !.ps = [ps EXCEPT !.pc = "AddGet",
                                          !.bitem = NoEntry, !.list = <<>>]]
        ELSE [st EXCEPT !.index = [@ EXCEPT ![e.indexName] = r.kv],
                        !.ps = IndexOpDone(ps, r.err)]

\* one step of the caller st.ps
Step(st, order) ==
    CASE st.ps.pc = "SetGet" -> SetGet(st)
      [] st.ps.pc = "SetWrite" -> SetWrite(st, order)
      [] st.ps.pc = "DeleteGet" -> DeleteGet(st)
      [] st.ps.pc = "DeleteWrite" -> DeleteWrite(st, order)
      [] st.ps.pc = "UpdateGet" -> UpdateGet(st)
      [] st.ps.pc = "DelGet" -> DelGet(st)
      [] st.ps.pc = "DelWrite" -> DelWrite(st)
      [] st.ps.pc = "AddGet" -> AddGet(st)
      [] st.ps.pc = "AddWrite" -> AddWrite(st)
      [] OTHER -> st

RECURSIVE Run(_, _)
\* the caller st.ps run alone until its operation returns
Run(st, order) == IF st.ps.pc = "done" THEN st ELSE Run(Step(st, order), order)

-----------------------------------------------------------------------------
(* Operations run one after another: every action is one whole call. *)

EmptyKV == [k \in {} |-> NoEntry]
NoIndex == [i \in IndexNames |-> EmptyKV]
NoRange == [open |-> FALSE, lower |-> MinBounds, upper |-> MaxBounds,
            lowerBytes |-> <<>>, upperBytes |-> <<>>, reverse |-> FALSE,
            all |-> FALSE, valid |-> FALSE, pos |-> <<>>]
NoOut == [keys |-> <<>>, ended |-> FALSE]
NoDiff == [old |-> <<>>, new |-> <<>>, done |-> FALSE,
           ab |-> [additions |-> <<>>, removals |-> <<>>],
           ba |-> [additions |-> <<>>, removals |-> <<>>]]
NoProcs == [p \in 1..NProcs |-> IdleProc]
\* the database after NewTable: the table is in db.tables and in
\* db.config.Tables
NewDb == [tables |-> TRUE, config |-> TRUE]

\* the index sets a table is declared with
IndexSets == {{"tag"}, {"tag", "n"}}
\* the tag lists of the documents callers store: none, one value, two
\* values in either order, one value twice
InputTags == {<<>>, <<1>>, <<2>>, <<1, 2>>, <<2, 1>>, <<1, 1>>, <<2, 2>>}
\* the documents callers store
InputDocs == [n : {0}, tag : InputTags]

\* successful writes of the primary keyspace so far
Writes == Entry(data, KeyX).ctr + Entry(data, KeyY).ctr
\* the counters callers supply for a key whose live counter is c
CounterInputs(c) == {0, c, c + 1, c + CounterMod}

Init ==
    /\ indexes \in IndexSets
    /\ data = EmptyKV
    /\ index = NoIndex
    /\ procs = NoProcs
    /\ rng = NoRange
    /\ out = NoOut
    /\ diff = NoDiff
    /\ db = NewDb

\* the state left by the caller ps running its whole operation alone
After(ps, order) == Run([data |-> data, index |-> index, ps |-> ps], order)

\* the caller ps runs its whole operation on the table, whose keyspaces
\* are open
Whole(ps) ==
    /\ db.tables
    /\ Writes < MaxWrites
    /\ \E order \in Orders(indexes) :
          /\ data' = After(ps, order).data
          /\ index' = After(ps, order).index
    /\ UNCHANGED <<indexes, procs, rng, out, diff, db>>

Set == \E key \in PKeys, doc \in InputDocs : Whole(SetCall(key, doc))

SetCas ==
    \E key \in PKeys, doc \in InputDocs :
        \E c \in CounterInputs(Entry(data, key).ctr) :
            \E absent \in AbsentCas :
                Whole(SetCasCallOn(key, doc, c, absent))

Delete == \E key \in PKeys : Whole(DeleteCall(key))

DeleteCas ==
    \E key \in PKeys :
        \E c \in CounterInputs(Entry(data, key).ctr) :
            Whole(DeleteCasCall(key, c))

Update == \E key \in PKeys, h \in Handlers : Whole(UpdateCall(key, h))

\* Table.Drop of a table that is in db.tables: the table leaves
\* db.config.Tables, its keyspaces are closed, it leaves db.tables and its
\* directory is removed. (Drop of a table that is not in db.tables returns
\* ErrNotFound and changes nothing; as with the keyspace operations, a
\* failing write of the configuration or of the file system is not taken.)
Drop ==
    /\ db.tables
    /\ db' = [tables |-> FALSE, config |-> FALSE]
    /\ data' = EmptyKV
    /\ index' = NoIndex
    /\ UNCHANGED <<indexes, procs, rng, out, diff>>

Next == Set \/ SetCas \/ Delete \/ DeleteCas \/ Update \/ Drop

Spec == Init /\ [][Next]_vars

-----------------------------------------------------------------------------
(* What the index holds and what the documents yield *)

\* the primary keys listed in index i's bucket for value v
BucketList(idx, i, v) ==
    IF KVGet(idx[i], v).has THEN DecodeList(KVGet(idx[i], v).val).list
    ELSE <<>>

InBucket(idx, k, i, v) == Found(k, BucketList(idx, i, v))

\* document k exists and its current value yields v at i's field path
DocYields(kv, k, i, v) ==
    KVGet(kv, k).has /\ Found(v, IndexValues(KVGet(kv, k).val, i))

\* every value some bucket of i is stored under or some document yields
ValuesOf(kv, idx, i) ==
    DOMAIN idx[i]
    \cup UNION {{IndexValues(KVGet(kv, k).val, i)[j] :
                    j \in 1..Len(IndexValues(KVGet(kv, k).val, i))} :
                k \in DOMAIN kv}

\* a stale entry: a bucket lists a key whose document does not yield its value
Stale(kv, idx, ixs) ==
    \E i \in ixs : \E v \in ValuesOf(kv, idx, i) : \E k \in PKeys :
        InBucket(idx, k, i, v) /\ ~DocYields(kv, k, i, v)

\* a missing entry: a document yields a value whose bucket does not list it
Missing(kv, idx, ixs) ==
    \E i \in ixs : \E v \in ValuesOf(kv, idx, i) : \E k \in PKeys :
        DocYields(kv, k, i, v) /\ ~InBucket(idx, k, i, v)

-----------------------------------------------------------------------------
(* C1: after any sequence of Set, Delete (and Update) calls run one after  *)
(* another, for every declared index i, value v and primary key k: k is in *)
(* i's bucket for v if and only if document k exists and yields v at i.    *)
C1_IndexExact == ~Stale(data, index, indexes) /\ ~Missing(data, index, indexes)

\* a bucket shared by both keys, one of them written twice, and a document
\* yielding the same value twice
C1_Witness ==
    /\ BucketList(index, "tag", <<1>>) = <<KeyY, KeyX>>
    /\ Entry(data, KeyX).ctr = 2
    /\ KVGet(data, KeyX).val = Marshal([n |-> 0, tag |-> <<1, 1>>])
    /\ ~KVGet(index["tag"], <<2>>).has
    /\ Entry(index["tag"], <<2>>).ctr > 0

\* the call ps, run alone from the current state, returns err and leaves the
\* primary keyspace and every index keyspace as they were
FailsUnchanged(ps, err) ==
    \A order \in Orders(indexes) :
        /\ After(ps, order).ps.ret = err
        /\ After(ps, order).data = data
        /\ After(ps, order).index = index

\* the Set and Delete calls on key that supply the counter c
CasCalls(key, c) ==
    {SetCasCall(key, doc, c) : doc \in InputDocs} \cup {DeleteCasCall(key, c)}

(* C3: a Set or Delete on an existing document with an expected counter    *)
(* that differs from the document's live counter returns                   *)
(* ErrCounterChanged and leaves value, counter and every bucket unchanged. *)
C3_StaleCounterFails ==
    \A key \in PKeys :
        KVGet(data, key).has =>
            \A c \in CounterInputs(KVGet(data, key).ctr) :
                c # KVGet(data, key).ctr =>
                    \A ps \in CasCalls(key, c) :
                        FailsUnchanged(ps, "ErrCounterChanged")

(* C8: Delete on a key that has no document, with or without an expected   *)
(* counter, returns nil and writes neither the primary keyspace nor any    *)
(* index bucket.                                                           *)
C8_DeleteAbsentNoop ==
    \A key \in PKeys :
        ~KVGet(data, key).has =>
            \A ps \in {DeleteCall(key)}
                      \cup {DeleteCasCall(key, c) :
                               c \in CounterInputs(Entry(data, key).ctr)} :
                FailsUnchanged(ps, "nil")

\* a key deleted before (its counter has moved) beside a document that
\* sits in buckets: Delete with and without a counter returns nil
C8_Witness ==
    /\ ~KVGet(data, KeyX).has
    /\ Entry(data, KeyX).ctr = 2
    /\ BucketList(index, "tag", <<1>>) = <<KeyY>>
    /\ \A order \in Orders(indexes) :
          /\ After(DeleteCall(KeyX), order).ps.ret = "nil"
          /\ After(DeleteCasCall(KeyX, 2), order).ps.ret = "nil"

(* C9: Update returns the failure of its read (ErrNotFound for a missing   *)
(* document) and returns the handler's abort error as it is; in both cases *)
(* value, counter and every index bucket are left unchanged.               *)
C9_UpdateFailsClean ==
    \A key \in PKeys :
        /\ ~KVGet(data, key).has =>
              \A h \in Handlers : FailsUnchanged(UpdateCall(key, h), "ErrNotFound")
        /\ KVGet(data, key).has =>
              FailsUnchanged(UpdateCall(key, "abort"), HandlerErr("abort"))

\* a missing document beside an indexed one: Update fails on the first and
\* is aborted by its handler on the second
C9_Witness ==
    /\ ~KVGet(data, KeyX).has
    /\ DocYields(data, KeyY, "tag", <<2>>)
    /\ InBucket(index, KeyY, "tag", <<2>>)
    /\ \A order \in Orders(indexes) :
          /\ After(UpdateCall(KeyX, "inc"), order).ps.ret = "ErrNotFound"
          /\ After(UpdateCall(KeyY, "abort"), order).ps.ret = "abort"

\* the index keys deleteFromIndex / addToIndex are called with: those of
\* the buckets ever written and the one-character tag strings
IndexKeys(idx, i) == DOMAIN idx[i] \cup {<<c>> : c \in TagCodes}

(* C14: deleteFromIndex(indexKey, primaryKey) returns nil and writes       *)
(* nothing (no bucket changes, no bucket counter moves) when no bucket is  *)
(* stored at indexKey and when the bucket stored there does not list       *)
(* primaryKey.                                                             *)
C14_DeleteFromIndexNoop ==
    \A i \in indexes : \A v \in IndexKeys(index, i) : \A k \in PKeys :
        ~InBucket(index, k, i, v) =>
            FailsUnchanged(DeleteFromIndexCall(i, v, k), "nil")

\* a bucket that lists "y" and not "x", beside a bucket that was deleted:
\* deleteFromIndex of "x" returns nil on both
C14_Witness ==
    /\ BucketList(index, "tag", <<2>>) = <<KeyY>>
    /\ ~KVGet(index["tag"], <<1>>).has
    /\ Entry(index["tag"], <<1>>).ctr = 2
    /\ \A v \in {<<1>>, <<2>>} :
          After(DeleteFromIndexCall("tag", v, KeyX), <<"tag">>).ps.ret = "nil"

\* the values bytes b yields at index i, as a set
YieldSet(b, i) == {IndexValues(b, i)[j] : j \in 1..Len(IndexValues(b, i))}

\* Set(key, doc) on the stored value old changes the buckets of index i as
\* the symmetric difference of the yielded values asks, and no others
TouchesOnlyDiff(ps, old, i, order) ==
    LET new == Marshal(ps.doc)
        after == After(ps, order).index
    IN  \A v \in IndexKeys(index, i) \cup YieldSet(new, i) :
            /\ (v \in YieldSet(old, i) <=> v \in YieldSet(new, i))
                  => Entry(after[i], v) = Entry(index[i], v)
            /\ (v \in YieldSet(old, i) \ YieldSet(new, i)
                   /\ BucketList(index, i, v) = <<ps.key>>)
                  => ~KVGet(after[i], v).has
            /\ v \in YieldSet(new, i) \ YieldSet(old, i)
                  => /\ InBucket(after, ps.key, i, v)
                     /\ Entry(after[i], v).ctr = Bump(Entry(index[i], v).ctr)

(* C16: a Set that replaces a document's value writes, in every declared   *)
(* index, only the buckets of the values one of the two values yields and  *)
(* the other does not: a bucket of a value both yield (or neither) keeps   *)
(* contents and counter, a bucket whose one member was the key and whose   *)
(* value is dropped is deleted, and the bucket of a newly yielded value is *)
(* written once and lists the key.                                         *)
C16_SetTouchesOnlyDiff ==
    \A key \in PKeys :
        KVGet(data, key).has =>
            \A doc \in InputDocs, i \in indexes, order \in Orders(indexes) :
                TouchesOnlyDiff(SetCall(key, doc), KVGet(data, key).val,
                                i, order)

\* "x" yields tags 1 and 2 and is alone in both buckets, "y" sits in a
\* third bucket of the number index: Set("x", {tag: [2]}) deletes bucket 1,
\* leaves bucket 2 and the number buckets alone
C16_Witness ==
    /\ indexes = IndexNames
    /\ YieldSet(KVGet(data, KeyX).val, "tag") = {<<1>>, <<2>>}
    /\ BucketList(index, "tag", <<1>>) = <<KeyX>>
    /\ BucketList(index, "tag", <<2>>) = <<KeyX>>
    /\ InBucket(index, KeyY, "n", <<0, 0>>)
    /\ \A order \in Orders(indexes) :
          LET after == After(SetCall(KeyX, [n |-> 0, tag |-> <<2>>]), order)
          IN  /\ after.index["tag"][<<2>>] = index["tag"][<<2>>]
              /\ ~after.index["tag"][<<1>>].has
              /\ after.index["n"] = index["n"]

(* C17: Set with an expected counter on a key that holds no document      *)
(* returns ErrCounterChanged and writes neither the primary keyspace nor   *)
(* any bucket, whatever counter is supplied (0, the counter the key had    *)
(* when it was deleted, one more, and those plus a multiple of 2^16) and   *)
(* whatever the engine answers a compare-and-set on a key without entry.   *)
C17_SetCasAbsentFails ==
    \A key \in PKeys :
        ~KVGet(data, key).has =>
            \A doc \in InputDocs, absent \in AbsentCas :
                \A c \in CounterInputs(Entry(data, key).ctr) \cup {CounterMod} :
                    FailsUnchanged(SetCasCallOn(key, doc, c, absent),
                                   "ErrCounterChanged")

\* the counters callers supply for a document whose live counter is c:
\* those of CounterInputs and the counter a multiple of 2^16 below
WideCounterInputs(c) == CounterInputs(c) \cup {c - CounterMod}

(* C20: on an existing document with live counter l, Set(key, v, c) goes   *)
(* through (returns nil, stores v, moves the counter to l + 1) exactly     *)
(* when c mod 2^16 = l, so also for c = l + 65536 and c = l - 65536, while *)
(* Delete(key, c) returns ErrCounterChanged and changes nothing for every  *)
(* c other than l itself.                                                  *)
C20_CounterWidths ==
    \A key \in PKeys :
        KVGet(data, key).has =>
            \A c \in WideCounterInputs(KVGet(data, key).ctr) :
                /\ \A doc \in InputDocs, order \in Orders(indexes) :
                      LET after == After(SetCasCall(key, doc, c), order)
                      IN  IF c % CounterMod = KVGet(data, key).ctr
                          THEN /\ after.ps.ret = "nil"
                               /\ KVGet(after.data, key).val = Marshal(doc)
                               /\ KVGet(after.data, key).ctr
                                     = Bump(KVGet(data, key).ctr)
                          ELSE /\ after.ps.ret = "ErrCounterChanged"
                               /\ after.data = data
                /\ c # KVGet(data, key).ctr =>
                      FailsUnchanged(DeleteCasCall(key, c), "ErrCounterChanged")

\* document "x" has been written twice: Set with counter 2 + 65536 goes
\* through, Delete with it does not, Delete with 2 does
C20_Witness ==
    /\ KVGet(data, KeyX).has
    /\ KVGet(data, KeyX).ctr = 2
    /\ InBucket(index, KeyX, "tag", <<1>>)
    /\ \A order \in Orders(indexes) :
          /\ After(SetCasCall(KeyX, NoDoc, 2 + CounterMod), order).ps.ret = "nil"
          /\ After(SetCasCall(KeyX, NoDoc, 2 + CounterMod), order).data # data
          /\ After(DeleteCasCall(KeyX, 2 + CounterMod), order).ps.ret
                = "ErrCounterChanged"
          /\ After(DeleteCasCall(KeyX, 2), order).ps.ret = "nil"

-----------------------------------------------------------------------------
(* The diff engine on its own: two payloads, diffed in both directions. *)

\* byte payloads: encoded documents, no bytes at all, bytes that do not decode
DiffPayloads ==
    {Marshal(d) : d \in [n : {0, 1}, tag : SeqsUpTo(TagCodes, MaxTags)]}
    \cup {<<>>, <<0, 3>>, <<1>>}

InitDiff ==
    /\ indexes \in SUBSET IndexNames
    /\ data = EmptyKV
    /\ index = NoIndex
    /\ procs = NoProcs
    /\ rng = NoRange
    /\ out = NoOut
    /\ \E a \in DiffPayloads, b \in DiffPayloads :
          diff = [NoDiff EXCEPT !.old = a, !.new = b]
    /\ db = NewDb

\* diffIndexes(old, new) and diffIndexes(new, old), each with its own map order
DiffBothWays ==
    /\ ~diff.done
    /\ \E o1 \in Orders(indexes), o2 \in Orders(indexes) :
          diff' = [diff EXCEPT !.done = TRUE,
                               !.ab = diffIndexes(diff.old, diff.new, o1),
                               !.ba = diffIndexes(diff.new, diff.old, o2)]
    /\ UNCHANGED <<indexes, data, index, procs, rng, out, db>>

NextDiff == DiffBothWays

SpecDiff == InitDiff /\ [][NextDiff]_vars

\* the (index, value) pairs of a list of diff entries
Pairs(entries) == {entries[j] : j \in 1..Len(entries)}

(* C10: the additions of diffIndexes(A, B) and the removals of             *)
(* diffIndexes(B, A) are the same set of (index, value) pairs, and so are  *)
(* the removals of diffIndexes(A, B) and the additions of diffIndexes(B, A).*)
C10_DiffSymmetry ==
    diff.done =>
        /\ Pairs(diff.ab.additions) = Pairs(diff.ba.removals)
        /\ Pairs(diff.ab.removals) = Pairs(diff.ba.additions)

\* two indexes, both payloads decoding, values added and removed under both
C10_Witness ==
    /\ diff.done
    /\ indexes = IndexNames
    /\ diff.old = Marshal([n |-> 0, tag |-> <<1, 1>>])
    /\ diff.new = Marshal([n |-> 1, tag |-> <<2, 1>>])
    /\ Cardinality(Pairs(diff.ab.additions)) = 2
    /\ Cardinality(Pairs(diff.ab.removals)) = 1
    /\ diff.ab.additions[1].indexName # diff.ba.removals[1].indexName

\* no entry of the list occurs at two positions
NoDuplicates(entries) ==
    \A i, j \in 1..Len(entries) : entries[i] = entries[j] => i = j

(* C11: in the result of diffIndexes every (index, value) pair occurs at   *)
(* most once in the additions and at most once in the removals, also when  *)
(* the old or the new payload yields a value several times at the path.    *)
C11_DiffNoDuplicates ==
    diff.done =>
        /\ NoDuplicates(diff.ab.additions)
        /\ NoDuplicates(diff.ab.removals)

-----------------------------------------------------------------------------
(* Range cursor: Between / All and the pulls of the Range they return. *)

\* the keys an iterator of the keyspace visits: those that hold a value
StoredKeys(kv) == {k \in DOMAIN kv : kv[k].has}

\* the first key of S in iteration order (the smallest, or the largest when
\* reversed); S is not empty
FirstOf(S, reverse) ==
    CHOOSE k \in S :
        \A j \in S : IF reverse THEN BytesCompare(j, k) <= 0
                     ELSE BytesCompare(k, j) <= 0

\* an iterator positioned on the first key of S, invalid when S is empty
Position(S, reverse) ==
    IF S = {} THEN [valid |-> FALSE, pos |-> <<>>]
    ELSE [valid |-> TRUE, pos |-> FirstOf(S, reverse)]

\* it.Rewind
ItRewind(kv, reverse) == Position(StoredKeys(kv), reverse)

\* it.Seek(k): the first key at or after k in iteration order
ItSeek(kv, k, reverse) ==
    Position({j \in StoredKeys(kv) :
                 IF reverse THEN BytesCompare(j, k) <= 0
                 ELSE BytesCompare(j, k) >= 0}, reverse)

\* it.Next from the key pos
ItNext(kv, pos, reverse) ==
    Position({j \in StoredKeys(kv) :
                 IF reverse THEN BytesCompare(j, pos) < 0
                 ELSE BytesCompare(j, pos) > 0}, reverse)

\* Between up to the return of the Range: the iterator is opened and placed
Between(kv, lower, upper, reverse) ==
    LET upperBytes == valueToBytes(upper)
        lowerBytes == valueToBytes(lower)
        it == IF ~reverse
              THEN (IF lower = MinBounds THEN ItRewind(kv, reverse)
                    ELSE ItSeek(kv, lowerBytes, reverse))
              ELSE (IF upper = MaxBounds THEN ItRewind(kv, reverse)
                    ELSE ItSeek(kv, upperBytes, reverse))
    IN  [open |-> TRUE, lower |-> lower, upper |-> upper,
         lowerBytes |-> lowerBytes, upperBytes |-> upperBytes,
         reverse |-> reverse, all |-> FALSE,
         valid |-> it.valid, pos |-> it.pos]

\* All(reverse) is Between(MinBounds, MaxBounds, reverse)
All(kv, reverse) ==
    [Between(kv, MinBounds, MaxBounds, reverse) EXCEPT !.all = TRUE]

\* the pull with an exclusive upper bound in forward order
RangeNextExclusive(kv, r) ==
    IF ~r.valid THEN [end |-> TRUE, key |-> <<>>, rng |-> r]
    ELSE IF ~r.reverse /\ r.upper # MaxBounds
            /\ BytesCompare(r.pos, r.upperBytes) >= 0
         THEN [end |-> TRUE, key |-> <<>>, rng |-> r]
    ELSE IF r.reverse /\ r.lower # MinBounds
            /\ BytesCompare(r.pos, r.lowerBytes) < 0
         THEN [end |-> TRUE, key |-> <<>>, rng |-> r]
    ELSE LET it == ItNext(kv, r.pos, r.reverse)
         IN  [end |-> FALSE, key |-> r.pos,
              rng |-> [r EXCEPT !.valid = it.valid, !.pos = it.pos]]

\* one pull of the Range: ErrEndOfRange, or the current key and it.Next
RangeNext(kv, r) ==
    IF ~r.valid THEN [end |-> TRUE, key |-> <<>>, rng |-> r]
    ELSE IF ~r.reverse /\ r.upper # MaxBounds
            /\ BytesCompare(r.pos, r.upperBytes) > 0
         THEN [end |-> TRUE, key |-> <<>>, rng |-> r]
    ELSE IF r.reverse /\ r.lower # MinBounds
            /\ BytesCompare(r.pos, r.lowerBytes) < 0
         THEN [end |-> TRUE, key |-> <<>>, rng |-> r]
    ELSE LET it == ItNext(kv, r.pos, r.reverse)
         IN  [end |-> FALSE, key |-> r.pos,
              rng |-> [r EXCEPT !.valid = it.valid, !.pos = it.pos]]

\* a stored document and a deleted one, as one Set and one Delete leave them
StoredEntry == KVSet(EmptyKV, <<>>, Marshal(NoDoc))[<<>>]
DeletedEntry == KVDelete(KVSet(EmptyKV, <<>>, Marshal(NoDoc)), <<>>)[<<>>]

\* a table without indexes holding any of the range keys, at most one of
\* the others deleted again
InitRange ==
    /\ indexes = {}
    /\ \E S \in SUBSET RangeKeys :
          \E D \in {{}} \cup {{k} : k \in RangeKeys \ S} :
              data = [k \in S \cup D |->
                         IF k \in S THEN StoredEntry ELSE DeletedEntry]
    /\ index = NoIndex
    /\ procs = NoProcs
    /\ rng = NoRange
    /\ out = NoOut
    /\ diff = NoDiff
    /\ db = NewDb

\* the bounds callers pass: a key, or the sentinel of that side
LowerBounds == {String(k) : k \in RangeKeys} \cup {MinBounds}
UpperBounds == {String(k) : k \in RangeKeys} \cup {MaxBounds}

CallBetween ==
    /\ ~rng.open
    /\ \E lower \in LowerBounds, upper \in UpperBounds, reverse \in BOOLEAN :
          rng' = Between(data, lower, upper, reverse)
    /\ UNCHANGED <<indexes, data, index, procs, out, diff, db>>

CallAll ==
    /\ ~rng.open
    /\ \E reverse \in BOOLEAN : rng' = All(data, reverse)
    /\ UNCHANGED <<indexes, data, index, procs, out, diff, db>>

Pull ==
    /\ rng.open
    /\ ~out.ended
    /\ rng' = RangeNext(data, rng).rng
    /\ out' = IF RangeNext(data, rng).end THEN [out EXCEPT !.ended = TRUE]
              ELSE [out EXCEPT !.keys = Append(@, RangeNext(data, rng).key)]
    /\ UNCHANGED <<indexes, data, index, procs, diff, db>>

NextRange == CallBetween \/ CallAll \/ Pull

SpecRange == InitRange /\ [][NextRange]_vars

\* the stored keys within the bounds of r
InRange(kv, r) ==
    {k \in StoredKeys(kv) :
        /\ r.lower = MinBounds \/ BytesCompare(r.lower.v, k) <= 0
        /\ r.upper = MaxBounds \/ BytesCompare(k, r.upper.v) <= 0}

\* q lists every key of S once, ascending, or descending when reversed
Lists(q, S, reverse) ==
    /\ Len(q) = Cardinality(S)
    /\ {q[j] : j \in 1..Len(q)} = S
    /\ \A j \in 1..(Len(q) - 1) :
          BytesCompare(q[j], q[j + 1]) = (IF reverse THEN 1 ELSE -1)

(* C7: pulling the Range of Between(lower, upper, reverse) to its end      *)
(* yields exactly the stored keys k with lower <= k <= upper (a sentinel   *)
(* is no bound), each once, ascending, or descending when reverse is set;  *)
(* All(reverse) yields what Between(MinBounds, MaxBounds, reverse) yields: *)
(* every stored key in that order.                                         *)
C7_RangeExact ==
    out.ended =>
        /\ Lists(out.keys, InRange(data, rng), rng.reverse)
        /\ rng.all => Lists(out.keys, StoredKeys(data), rng.reverse)

\* a reverse scan between two stored keys, over all five keys and a bound
\* on each side that cuts keys off
C7_Witness ==
    /\ out.ended
    /\ StoredKeys(data) = RangeKeys
    /\ rng.reverse /\ rng.lower # MinBounds /\ rng.upper # MaxBounds
    /\ out.keys = << <<2>>, <<1, 2>>, <<1, 1>> >>

-----------------------------------------------------------------------------
(* Concurrent callers: every action is one step of one caller, a step     *)
(* holding one operation of a keyspace.                                    *)

InFlight(ps) == ps.pc \notin {"idle", "done", "crashed"}

\* the bucket the caller's current index operation works on
CurrentBucket(ps) == IF ps.rem # <<>> THEN Head(ps.rem) ELSE Head(ps.add)

\* every caller has returned (or has not called)
AllReturned == \A p \in DOMAIN procs : procs[p].pc \in {"idle", "done"}

\* the table after one whole call ps on a new table
TableAfter(ps, order) ==
    Run([data |-> EmptyKV, index |-> NoIndex, ps |-> ps], order)

\* a new table, or one in which document "x" has been set once
InitConc ==
    /\ indexes \in IndexSets
    /\ \/ data = EmptyKV /\ index = NoIndex
       \/ \E doc \in InputDocs, order \in Orders(indexes) :
             /\ data = TableAfter(SetCall(KeyX, doc), order).data
             /\ index = TableAfter(SetCall(KeyX, doc), order).index
    /\ procs = NoProcs
    /\ rng = NoRange
    /\ out = NoOut
    /\ diff = NoDiff
    /\ db = NewDb

\* caller p starts the call ps
Invoke(p, ps) ==
    /\ procs[p].pc = "idle"
    /\ procs' = [procs EXCEPT ![p] = ps]
    /\ UNCHANGED <<indexes, data, index, rng, out, diff, db>>

InvokeSet ==
    \E p \in DOMAIN procs, doc \in InputDocs : Invoke(p, SetCall(KeyX, doc))

InvokeDelete == \E p \in DOMAIN procs : Invoke(p, DeleteCall(KeyX))

InvokeUpdate ==
    \E p \in DOMAIN procs, h \in Handlers : Invoke(p, UpdateCall(KeyX, h))

\* caller p takes its next step
StepOf(p) ==
    /\ InFlight(procs[p])
    /\ \E order \in Orders(indexes) :
          LET st == Step([data |-> data, index |-> index,
                          ps |-> procs[p]], order)
          IN  /\ data' = st.data
              /\ index' = st.index
              /\ procs' = [procs EXCEPT ![p] = st.ps]
    /\ UNCHANGED <<indexes, rng, out, diff, db>>

\* some caller takes its next step
StepProc == \E p \in DOMAIN procs : StepOf(p)

NextConc == InvokeSet \/ InvokeDelete \/ InvokeUpdate \/ StepProc

SpecConc == InitConc /\ [][NextConc]_vars

(* C5: once every one of a set of concurrent Set / Delete / Update calls   *)
(* on one document has returned, every index bucket lists the document's   *)
(* key if and only if the document's final value yields the bucket's value.*)
C5_QuiescentExact ==
    AllReturned => ~Stale(data, index, indexes) /\ ~Missing(data, index, indexes)

-----------------------------------------------------------------------------
(* Concurrent Update(k, increment) calls on one document whose number is 0.*)

\* document "x" has been set once, its number 0
InitUpdate ==
    /\ indexes \in IndexSets
    /\ \E doc \in InputDocs, order \in Orders(indexes) :
          /\ doc.n = 0
          /\ data = TableAfter(SetCall(KeyX, doc), order).data
          /\ index = TableAfter(SetCall(KeyX, doc), order).index
    /\ procs = NoProcs
    /\ rng = NoRange
    /\ out = NoOut
    /\ diff = NoDiff
    /\ db = NewDb

InvokeIncrement == \E p \in DOMAIN procs : Invoke(p, UpdateCall(KeyX, "inc"))

NextUpdate == InvokeIncrement \/ StepProc

SpecUpdate == InitUpdate /\ [][NextUpdate]_vars

\* the callers that have returned
Done == {p \in DOMAIN procs : procs[p].pc = "done"}

\* every call made so far was Update(k, increment) and has returned nil
OnlyIncrements ==
    /\ AllReturned
    /\ \A p \in Done :
          /\ procs[p].op = "Update"
          /\ procs[p].handler = "inc"
          /\ procs[p].ret = "nil"

(* C2: when N concurrent Update(k, increment) calls, interleaved at their  *)
(* Get and CompareAndSet steps, on a document whose number starts at 0     *)
(* have all returned nil, the stored number is N.                          *)
C2_NoLostIncrement ==
    OnlyIncrements =>
        Unmarshal(KVGet(data, KeyX).val).doc.n = Cardinality(Done)

\* every caller has incremented a document that also yields tags, and the
\* number is indexed
C2_Witness ==
    /\ OnlyIncrements
    /\ Done = DOMAIN procs
    /\ Unmarshal(KVGet(data, KeyX).val).doc.n = NProcs
    /\ "n" \in indexes
    /\ InBucket(index, KeyX, "n", <<0, NProcs>>)
    /\ InBucket(index, KeyX, "tag", <<2>>)

-----------------------------------------------------------------------------
(* One caller at a time on document "x", which may stop for good between  *)
(* any two steps.                                                          *)

\* the calls a caller makes on key
Calls(key) ==
    {SetCall(key, doc) : doc \in InputDocs}
    \cup {DeleteCall(key)}
    \cup {UpdateCall(key, h) : h \in Handlers}

\* the next call starts once the one before has returned or crashed
InvokeNext ==
    /\ \A p \in DOMAIN procs : ~InFlight(procs[p])
    /\ Writes < MaxWrites
    /\ \E ps \in Calls(KeyX) : procs' = [procs EXCEPT ![1] = ps]
    /\ UNCHANGED <<indexes, data, index, rng, out, diff, db>>

\* the process of a caller dies: its call takes no further step
Crash ==
    /\ \E p \in DOMAIN procs :
          /\ InFlight(procs[p])
          /\ procs' = [procs EXCEPT ![p] =
                          [IdleProc EXCEPT !.pc = "crashed", !.op = procs[p].op,
                                           !.key = procs[p].key]]
    /\ UNCHANGED <<indexes, data, index, rng, out, diff, db>>

NextCrash == InvokeNext \/ StepProc \/ Crash

SpecCrash == Init /\ [][NextCrash]_vars

(* C6: in every state in which no call is in flight, those left by a crash *)
(* between the primary write and the index writes included, no bucket      *)
(* lists a key whose document does not yield the bucket's value.           *)
C6_NeverStale ==
    (\A p \in DOMAIN procs : ~InFlight(procs[p]))
        => ~Stale(data, index, indexes)

-----------------------------------------------------------------------------
(* addToIndex and deleteFromIndex called concurrently on one bucket, each  *)
(* caller with a primary key of its own.                                   *)

ProcKey(p) == <<p>>
\* the bucket the callers work on, and a document that yields its value
SharedIndex == "tag"
SharedValue == <<1>>
SharedDoc == [n |-> 0, tag |-> SharedValue]

RECURSIVE TableOf(_)
\* the table after Set(q[i], SharedDoc) for each i in turn
TableOf(q) ==
    IF q = <<>> THEN [data |-> EmptyKV, index |-> NoIndex, ps |-> IdleProc]
    ELSE LET t == TableOf(SubSeq(q, 1, Len(q) - 1))
         IN  Run([t EXCEPT !.ps = SetCall(q[Len(q)], SharedDoc)],
                 <<SharedIndex>>)

\* documents of some callers' keys have been set, in some order
InitIndex ==
    /\ indexes = {SharedIndex}
    /\ \E q \in SeqsUpTo({ProcKey(p) : p \in 1..NProcs}, NProcs) :
          /\ \A i, j \in DOMAIN q : i # j => q[i] # q[j]
          /\ data = TableOf(q).data
          /\ index = TableOf(q).index
    /\ procs = NoProcs
    /\ rng = NoRange
    /\ out = NoOut
    /\ diff = NoDiff
    /\ db = NewDb

InvokeAddToIndex ==
    \E p \in DOMAIN procs :
        Invoke(p, AddToIndexCall(SharedIndex, SharedValue, ProcKey(p)))

InvokeDeleteFromIndex ==
    \E p \in DOMAIN procs :
        Invoke(p, DeleteFromIndexCall(SharedIndex, SharedValue, ProcKey(p)))

NextIndex == InvokeAddToIndex \/ InvokeDeleteFromIndex \/ StepProc

SpecIndex == InitIndex /\ [][NextIndex]_vars

(* C4: after concurrent addToIndex and deleteFromIndex calls for distinct  *)
(* primary keys on one index key have all returned, the bucket lists       *)
(* exactly the keys added and not removed: the key of every caller that    *)
(* added, not the key of any caller that removed, and the keys of the      *)
(* others as before.                                                       *)
C4_BucketExact ==
    AllReturned =>
        \A p \in DOMAIN procs :
            InBucket(index, ProcKey(p), SharedIndex, SharedValue)
                <=> IF procs[p].op = "addToIndex" THEN TRUE
                    ELSE IF procs[p].op = "deleteFromIndex" THEN FALSE
                    ELSE DocYields(data, ProcKey(p), SharedIndex, SharedValue)

\* the callers that have returned from the call op
Returned(op) ==
    {p \in DOMAIN procs : procs[p].pc = "done" /\ procs[p].op = op}

(* C13: in every state reached by interleaved addToIndex and               *)
(* deleteFromIndex calls, every bucket that is stored holds a list of at   *)
(* least one primary key: a bucket that loses its last key is deleted.     *)
C13_NoEmptyBucket ==
    \A i \in IndexNames : \A v \in DOMAIN index[i] :
        index[i][v].has =>
            /\ DecodeList(index[i][v].val).err = "nil"
            /\ DecodeList(index[i][v].val).list # <<>>

\* both callers have removed their keys from the bucket they shared, the
\* second of them its last key: the bucket is gone after three writes
C13_Witness ==
    /\ Returned("deleteFromIndex") = DOMAIN procs
    /\ SharedValue \in DOMAIN index[SharedIndex]
    /\ ~index[SharedIndex][SharedValue].has
    /\ index[SharedIndex][SharedValue].ctr >= 3

-----------------------------------------------------------------------------
(* addToIndex and deleteFromIndex called concurrently on one bucket, the   *)
(* callers free to work on the same primary key.                           *)

\* the primary keys the callers pass
BucketKeys == {ProcKey(q) : q \in 1..NProcs}

InvokeAddKey ==
    \E p \in DOMAIN procs, k \in BucketKeys :
        Invoke(p, AddToIndexCall(SharedIndex, SharedValue, k))

InvokeDeleteKey ==
    \E p \in DOMAIN procs, k \in BucketKeys :
        Invoke(p, DeleteFromIndexCall(SharedIndex, SharedValue, k))

NextBucket == InvokeAddKey \/ InvokeDeleteKey \/ StepProc

SpecBucket == InitIndex /\ [][NextBucket]_vars

(* C15: addToIndex(indexKey, primaryKey) on a bucket that already lists    *)
(* primaryKey returns nil and writes nothing (contents and counter of the  *)
(* bucket stay), and in every reachable state, concurrent calls for the    *)
(* same key included, no bucket lists a primary key twice.                 *)
C15_AddIdempotent ==
    /\ \A k \in BucketKeys :
          InBucket(index, k, SharedIndex, SharedValue) =>
              FailsUnchanged(AddToIndexCall(SharedIndex, SharedValue, k), "nil")
    /\ \A i \in IndexNames : \A v \in DOMAIN index[i] :
          NoDuplicates(BucketList(index, i, v))

\* every caller has added the key the bucket listed from the start, and
\* the bucket still is as its one write left it
C15_Witness ==
    /\ Returned("addToIndex") = DOMAIN procs
    /\ \A p \in DOMAIN procs : procs[p].key = KeyX /\ procs[p].ret = "nil"
    /\ BucketList(index, SharedIndex, SharedValue) = <<KeyX>>
    /\ index[SharedIndex][SharedValue].ctr = 1

-----------------------------------------------------------------------------
(* A finite number of calls, one per caller, run concurrently under fair   *)
(* scheduling: Update calls on document "x" and addToIndex /               *)
(* deleteFromIndex calls on the bucket its tag selects.                    *)

\* Update("x", retag): the key moves from the bucket of one tag to the
\* bucket of the other
InvokeRetag == \E p \in DOMAIN procs : Invoke(p, UpdateCall(KeyX, "retag"))

NextRetry ==
    InvokeRetag \/ InvokeAddToIndex \/ InvokeDeleteFromIndex \/ StepProc

\* weak fairness of every caller's steps, WF_vars(StepOf(p)), written out:
\* a caller in flight always has a step, and the step moves it, so that
\* ENABLED <<StepOf(p)>>_vars is InFlight(procs[p])
FairSteps ==
    \A p \in 1..NProcs :
        []<>(~InFlight(procs[p])) \/ []<><<StepOf(p)>>_vars

SpecRetry == InitIndex /\ [][NextRetry]_vars /\ FairSteps

\* this step sends caller p round its loop: Update back to its read after
\* Set returned ErrCounterChanged, addToIndex / deleteFromIndex back to
\* their Get after a CasMismatch
RetryStep(p) ==
    \/ /\ procs[p].op = "Update"
       /\ procs[p].pc \in {"SetGet", "SetWrite"}
       /\ procs'[p].pc = "UpdateGet"
    \/ /\ procs[p].pc = "AddWrite" /\ procs'[p].pc = "AddGet"
       /\ procs'[p].add = procs[p].add
    \/ /\ procs[p].pc = "DelWrite" /\ procs'[p].pc = "DelGet"
       /\ procs'[p].rem = procs[p].rem

\* the key k holds an entry whose counter is c
StoredAt(kv, k, c) == Entry(kv, k).has /\ Entry(kv, k).ctr = c

\* the entry caller p read at the top of its loop is no longer the stored
\* one: the key has been written or deleted since
WrittenSinceRead(p) ==
    IF procs[p].pc \in {"SetGet", "SetWrite"}
    THEN ~StoredAt(data, procs[p].key, procs[p].ctr)
    ELSE Entry(index[CurrentBucket(procs[p]).indexName],
               CurrentBucket(procs[p]).indexKey) # procs[p].bitem

(* C19: a caller goes round the loop of Update, addToIndex or              *)
(* deleteFromIndex only when the key it works on has been written by       *)
(* another caller since it read it, and when finitely many calls run       *)
(* concurrently under fair scheduling every one of them eventually         *)
(* returns.                                                                *)
C19_LoopsTerminate ==
    /\ [][\A p \in 1..NProcs : RetryStep(p) => WrittenSinceRead(p)]_vars
    /\ \A p \in 1..NProcs : InFlight(procs[p]) ~> (procs[p].pc = "done")

\* an Update about to be refused by Set, the document having been written
\* by the other caller's Update since its read; the other caller is inside
\* deleteFromIndex and has yet to write the bucket it read
C19_Witness ==
    /\ procs[1].op = "Update" /\ procs[1].pc = "SetWrite"
    /\ ~StoredAt(data, KeyX, procs[1].ctr)
    /\ procs[2].op = "Update" /\ procs[2].pc = "DelWrite"
    /\ Entry(data, KeyX).ctr = Bump(procs[1].ctr)

-----------------------------------------------------------------------------
(* A table one of whose buckets holds bytes that do not decode: calls on   *)
(* document "x", one after another, each taken step by step.               *)

\* bucket contents that are no []string: no bytes, a truncated element, a
\* count larger than the elements that follow
CorruptLists == {<<>>, <<1, 1>>, <<2, 1, 1>>}

\* document "x" has been set once and one bucket of "tag" has been
\* overwritten with bytes that do not decode
InitCorrupt ==
    /\ indexes \in IndexSets
    /\ \E doc \in InputDocs, order \in Orders(indexes) :
          \E v \in {<<c>> : c \in TagCodes}, bad \in CorruptLists :
              /\ data = TableAfter(SetCall(KeyX, doc), order).data
              /\ index = [TableAfter(SetCall(KeyX, doc), order).index
                             EXCEPT !["tag"] = KVSet(@, v, bad)]
    /\ procs = NoProcs
    /\ rng = NoRange
    /\ out = NoOut
    /\ diff = NoDiff
    /\ db = NewDb

NextCorrupt == InvokeNext \/ StepProc

SpecCorrupt == InitCorrupt /\ [][NextCorrupt]_vars

\* the caller is inside updateIndex: its primary write has gone through
InUpdateIndex(ps) ==
    /\ ps.op \in {"Set", "Delete", "Update"}
    /\ ps.pc \in {"DelGet", "DelWrite", "AddGet", "AddWrite"}

(* C12: once the primary write of a Set or Delete (or of the Set inside an *)
(* Update) has gone through, the call returns nil whatever the bucket      *)
(* operations of its index synchronisation return, and the primary         *)
(* keyspace stays as the write left it.                                    *)
C12_IndexErrorsDropped ==
    \A p \in DOMAIN procs :
        InUpdateIndex(procs[p]) =>
            \A order \in Orders(indexes) :
                /\ After(procs[p], order).ps.ret = "nil"
                /\ After(procs[p], order).data = data

\* a Set whose removal has failed on the bucket that does not decode and
\* whose addition is still to be made
C12_Witness ==
    /\ procs[1].op = "Set"
    /\ procs[1].pc = "AddGet"
    /\ procs[1].lastErr = "decode"
    /\ KVGet(index["tag"], <<1>>).has
    /\ DecodeList(KVGet(index["tag"], <<1>>).val).err = "decode"
    /\ KVGet(data, KeyX).val = Marshal(procs[1].doc)
    /\ \A order \in Orders(indexes) : After(procs[1], order).ps.ret = "nil"

-----------------------------------------------------------------------------
(* Callers taken step by step on a table with a bucket that does not       *)
(* decode: one on document "x", the others on document "y". No lock is     *)
(* held across the keyspace operations of a call, so the steps of the      *)
(* calls interleave freely.                                                *)

\* a new table, or one in which document "x" has been set once; one
\* bucket of "tag" has been overwritten with a truncated list
InitSync ==
    /\ indexes \in IndexSets
    /\ \E t \in {[data |-> EmptyKV, index |-> NoIndex]}
                 \cup {[data |-> TableAfter(SetCall(KeyX, doc), order).data,
                        index |-> TableAfter(SetCall(KeyX, doc), order).index] :
                          doc \in InputDocs, order \in Orders(indexes)} :
          \E v \in {<<c>> : c \in TagCodes} :
              /\ data = t.data
              /\ index = [t.index EXCEPT !["tag"] = KVSet(@, v, <<1, 1>>)]
    /\ procs = NoProcs
    /\ rng = NoRange
    /\ out = NoOut
    /\ diff = NoDiff
    /\ db = NewDb

\* the calls the other callers make: Set of document "y" to a value with
\* one tag, and Delete of document "y"
OtherCalls ==
    {SetCall(KeyY, [n |-> 0, tag |-> <<c>>]) : c \in TagCodes}
    \cup {DeleteCall(KeyY)}

\* caller p, not in a call, starts the call ps
InvokeAgain(p, ps) ==
    /\ ~InFlight(procs[p])
    /\ Writes < MaxWrites
    /\ procs' = [procs EXCEPT ![p] = ps]
    /\ UNCHANGED <<indexes, data, index, rng, out, diff, db>>

\* the first caller starts a call on document "x"
InvokeCaller == \E ps \in Calls(KeyX) : InvokeAgain(1, ps)

\* another caller starts a call on document "y"
InvokeOther ==
    \E p \in DOMAIN procs \ {1}, ps \in OtherCalls : InvokeAgain(p, ps)

NextSync == InvokeCaller \/ InvokeOther \/ StepProc

SpecSync == InitSync /\ [][NextSync]_vars

\* the bucket of the diff entry e is stored and does not decode
Undecodable(idx, e) ==
    /\ KVGet(idx[e.indexName], e.indexKey).has
    /\ DecodeList(KVGet(idx[e.indexName], e.indexKey).val).err # "nil"

\* the caller, left alone from here, takes its key out of the bucket of
\* every removal it still has to make and puts it into the bucket of every
\* addition, the buckets that do not decode excepted
PendingApplied(ps, order) ==
    LET after == After(ps, order).index
    IN  /\ \A j \in 1..Len(ps.rem) :
              ~Undecodable(index, ps.rem[j]) =>
                  ~InBucket(after, ps.key, ps.rem[j].indexName,
                            ps.rem[j].indexKey)
        /\ \A j \in 1..Len(ps.add) :
              ~Undecodable(index, ps.add[j]) =>
                  InBucket(after, ps.key, ps.add[j].indexName,
                           ps.add[j].indexKey)

\* the caller's next step leaves the primary keyspace and every bucket but
\* the one its current index operation works on as they are
OnlyCurrentBucket(ps, order) ==
    LET st == Step([data |-> data, index |-> index, ps |-> ps], order)
        e == CurrentBucket(ps)
    IN  /\ st.data = data
        /\ \A i \in IndexNames :
              \A v \in DOMAIN index[i] \cup DOMAIN st.index[i] :
                  (i # e.indexName \/ v # e.indexKey)
                      => Entry(st.index[i], v) = Entry(index[i], v)

(* C18: inside updateIndex, whatever bucket operations have failed or gone *)
(* round their CAS loop so far, every removal and addition of the diff     *)
(* that is still to be made is made (each bucket that decodes ends without *)
(* the key, or with it), and a step of deleteFromIndex / addToIndex writes *)
(* no bucket but the one it was called for.                                *)
C18_BucketsIndependent ==
    \A p \in DOMAIN procs :
        InUpdateIndex(procs[p]) =>
            \A order \in Orders(indexes) :
                /\ PendingApplied(procs[p], order)
                /\ OnlyCurrentBucket(procs[p], order)

\* a Set whose removal failed on the bucket that does not decode and whose
\* addition is about to fail its compare-and-set, the bucket having been
\* written by another caller since it was read
C18_Witness ==
    /\ procs[1].op = "Set"
    /\ procs[1].pc = "AddWrite"
    /\ procs[1].lastErr = "decode"
    /\ procs[1].bitem.has
    /\ procs[1].bitem.ctr # Entry(index["tag"], Head(procs[1].add).indexKey).ctr
    /\ Head(procs[1].add).indexName = "tag"
    /\ ~InBucket(index, KeyX, "tag", Head(procs[1].add).indexKey)
    /\ \A order \in Orders(indexes) :
          InBucket(After(procs[1], order).index, KeyX, "tag",
                   Head(procs[1].add).indexKey)

====
